---- MODULE Spec2Model ----
(***************************************************************************)
(* Model of the camera web server firmware                                 *)
(* (Software/CameraWebServerV1.2/CameraWebServerV1.2.ino).                 *)
(*                                                                         *)
(* Three execution contexts exist: the Arduino main task (setup, loop),    *)
(* the task of the HTTP server on port 80 and the task of the HTTP server  *)
(* on port 81.  A server task runs one URI handler at a time, so the       *)
(* handlers of one port never overlap, while the two ports and the main    *)
(* task interleave freely at every blocking call (frame acquisition,       *)
(* network write, vTaskDelay).                                             *)
(***************************************************************************)
EXTENDS Integers, Sequences, FiniteSets, TLC

(***************************************************************************)
(* Bounds of the model (not program constants).                            *)
(***************************************************************************)
\* frames one stream session may acquire before the camera only fails
MaxFrames == 5
\* largest value the static error counter is followed to
MaxErrorCount == 13
\* chunks the streamed encoder may hand to its sink for one frame
MaxChunks == 2

(***************************************************************************)
(* Program constants.                                                      *)
(***************************************************************************)
MAX_RETRIES == 3
RETRY_DELAY_MS == 50
STREAM_ERR_DELAY_MS == 50
ERROR_THRESHOLD == 10
WARMUP_FRAMES == 3
WARMUP_DELAY_MS == 100
DEFAULT_STREAM_DELAY_MS == 33
PART_BUF_SIZE == 128
\* longest text _STREAM_PART can format to with 32-bit arguments
MAX_PART_HEADER_LEN == 94

\* byte lengths a camera frame or an encoder chunk may have
FrameLens == {1, 2}

Tasks == {"main", "p80", "p81"}
HttpTasks == {"p80", "p81"}

VARIABLES
  \* ---- main sketch ----
  hasPsram,            \* psramFound()
  pcMain,              \* position of the main task
  warm_i,              \* loop variable i of warmupCamera
  camera_initialized,
  wifi_connected,
  server_started,
  led_mode,
  wifiStatus,          \* WiFi.status() as the radio reports it
  camera_httpd,        \* TRUE when the handle is not nullptr
  snapshot_httpd,
  stream_delay_ms,
  \* ---- camera driver ----
  fbOut,               \* frames handed out by esp_camera_fb_get, not returned
  \* ---- handlers ----
  pc,                  \* position of each HTTP server task
  kind,                \* handler the task runs or ran last
  fb,                  \* local fb of the running handler: "null", "jpeg", "raw"
  fbLen,               \* fb->len of the frame held
  res,                 \* local res of the running handler
  ret,                 \* value the last handler of the task returned
  held,                \* frames acquired minus frames returned, per task
  sleep,               \* milliseconds of the vTaskDelay a task is in, else 0
  error_count,         \* static uint32_t error_count of stream_handler
  jpg_buf,             \* _jpg_buf: "null", "fb" (fb->buf) or "heap"
  jpg_buf_len,         \* _jpg_buf_len
  heapBufs,            \* encode buffers allocated minus freed
  sess,                \* bookkeeping of the current or last stream session
  retry,               \* loop variable retry of capture_handler
  jchunk,              \* jpg_chunking_t.len and the encoder's byte index
  cap,                 \* bookkeeping of the current or last capture request
  \* ---- sensor, control, status, health ----
  sensor,              \* esp_camera_sensor_get(): presence and s->status
  resp,                \* the last response of /control, /status or /health
  lastStart            \* what the last call of startCameraServer did

mainVars == <<hasPsram, pcMain, warm_i, camera_initialized, wifi_connected,
              server_started, led_mode, wifiStatus, camera_httpd,
              snapshot_httpd, stream_delay_ms>>
streamVars == <<error_count, jpg_buf, jpg_buf_len, heapBufs, sess>>
captureVars == <<retry, jchunk, cap>>
taskVars == <<pc, kind, fb, fbLen, res, ret, sleep>>
ctlVars == <<sensor, resp, lastStart>>
vars == <<mainVars, fbOut, held, taskVars, streamVars, captureVars, ctlVars>>

\* config.fb_count
fb_count == IF hasPsram THEN 2 ELSE 1

\* What esp_camera_fb_get can return: a frame only while the driver still
\* owns a buffer, and a null pointer at any time (timeout, hardware fault).
esp_camera_fb_get == IF fbOut < fb_count THEN {"null", "jpeg", "raw"} ELSE {"null"}

NewSess == [encoded |-> 0, boundaries |-> 0, headers |-> 0, payloads |-> 0,
            fails |-> 0, bFail |-> FALSE, hdrLen |-> 0, sentLen |-> 0,
            paced |-> 0, closed |-> "none", failAt |-> 0, hadFail |-> FALSE]

NewCap == [attempts |-> 0, backoffs |-> 0, status |-> "none", hdrs |-> FALSE,
           body |-> "none", got |-> FALSE, sendOk |-> FALSE, chunks |-> 0,
           released |-> 0, written |-> 0]

\* values of framesize_t (sensor.h); the code depends on their order only
FRAMESIZE_SVGA == 9
FRAMESIZE_FHD == 14
FRAMESIZE_INVALID == 22

NoSensor == [present |-> FALSE, framesize |-> 0, quality |-> 0, vflip |-> 0,
             hmirror |-> 0]

\* s->status after initCamera and applySensorDefaults
SensorDefaults ==
  [present |-> TRUE, framesize |-> FRAMESIZE_SVGA,
   quality |-> IF hasPsram THEN 12 ELSE 16, vflip |-> 0, hmirror |-> 0]

NoResp == [handler |-> "none", status |-> "none"]

NoStart == [called |-> FALSE, pre80 |-> FALSE, pre81 |-> FALSE, started |-> 0,
            registered |-> 0, result |-> FALSE, total80 |-> 0, total81 |-> 0]

Init ==
  /\ hasPsram \in BOOLEAN
  /\ pcMain = "setup"
  /\ warm_i = 0
  /\ camera_initialized = FALSE
  /\ wifi_connected = FALSE
  /\ server_started = FALSE
  /\ led_mode = "LED_MODE_CONNECTING"
  /\ wifiStatus = "WL_IDLE_STATUS"
  /\ camera_httpd = FALSE
  /\ snapshot_httpd = FALSE
  /\ stream_delay_ms = DEFAULT_STREAM_DELAY_MS
  /\ fbOut = 0
  /\ pc = [t \in HttpTasks |-> "idle"]
  /\ kind = [t \in HttpTasks |-> "none"]
  /\ fb = [t \in HttpTasks |-> "null"]
  /\ fbLen = [t \in HttpTasks |-> 0]
  /\ res = [t \in HttpTasks |-> "ESP_OK"]
  /\ ret = [t \in HttpTasks |-> "none"]
  /\ held = [t \in Tasks |-> 0]
  /\ sleep = [t \in Tasks |-> 0]
  /\ error_count = 0
  /\ jpg_buf = "null"
  /\ jpg_buf_len = 0
  /\ heapBufs = 0
  /\ sess = NewSess
  /\ retry = [t \in HttpTasks |-> 0]
  /\ jchunk = [t \in HttpTasks |-> [len |-> 0, index |-> 0]]
  /\ cap = [t \in HttpTasks |-> NewCap]
  /\ sensor = NoSensor
  /\ resp = NoResp
  /\ lastStart = NoStart

handlerVars == <<taskVars, streamVars, captureVars>>

(***************************************************************************)
(* Main task: setup(), initCamera(), warmupCamera(), connectWiFi(), loop() *)
(***************************************************************************)

\* setLedMode: the mode the LED is left in
setLedMode(mode) == mode

\* setup() up to the end of the sensor configuration in initCamera():
\* esp_camera_init or esp_camera_sensor_get may fail, which makes setup()
\* give up with the LED in error mode; otherwise warmupCamera() is entered.
initCamera ==
  /\ pcMain = "setup"
  /\ \E initOk \in BOOLEAN :
       IF initOk
         THEN /\ pcMain' = "warm_get"
              /\ warm_i' = 0
              /\ led_mode' = setLedMode("LED_MODE_CONNECTING")
              /\ sensor' = SensorDefaults
              /\ UNCHANGED camera_initialized
         ELSE /\ pcMain' = "loop"
              /\ camera_initialized' = FALSE
              /\ led_mode' = setLedMode("LED_MODE_ERROR")
              /\ UNCHANGED <<warm_i, sensor>>
  /\ UNCHANGED <<hasPsram, wifi_connected, server_started, wifiStatus,
                 camera_httpd, snapshot_httpd, stream_delay_ms>>
  /\ UNCHANGED <<fbOut, held, handlerVars>>
  /\ UNCHANGED <<resp, lastStart>>

\* warmupCamera: camera_fb_t *fb = esp_camera_fb_get() of iteration warm_i
warmupCamera_get ==
  /\ pcMain = "warm_get"
  /\ warm_i < WARMUP_FRAMES
  /\ \E f \in esp_camera_fb_get :
       IF f # "null"
         THEN /\ fbOut' = fbOut + 1
              /\ held' = [held EXCEPT !["main"] = @ + 1]
              /\ pcMain' = "warm_return"
              /\ UNCHANGED warm_i
         ELSE /\ warm_i' = warm_i + 1
              /\ UNCHANGED <<fbOut, held, pcMain>>
  /\ UNCHANGED <<hasPsram, camera_initialized, wifi_connected, server_started,
                 led_mode, wifiStatus, camera_httpd, snapshot_httpd,
                 stream_delay_ms>>
  /\ UNCHANGED handlerVars
  /\ UNCHANGED ctlVars

\* warmupCamera: esp_camera_fb_return(fb), then vTaskDelay(100 ms)
warmupCamera_return ==
  /\ pcMain = "warm_return"
  /\ fbOut' = fbOut - 1
  /\ held' = [held EXCEPT !["main"] = @ - 1]
  /\ sleep' = [sleep EXCEPT !["main"] = WARMUP_DELAY_MS]
  /\ pcMain' = "warm_delay"
  /\ UNCHANGED <<hasPsram, warm_i, camera_initialized, wifi_connected,
                 server_started, led_mode, wifiStatus, camera_httpd,
                 snapshot_httpd, stream_delay_ms>>
  /\ UNCHANGED <<pc, kind, fb, fbLen, res, ret, streamVars, captureVars>>
  /\ UNCHANGED ctlVars

\* warmupCamera: the delay ends, i++
warmupCamera_delay ==
  /\ pcMain = "warm_delay"
  /\ sleep' = [sleep EXCEPT !["main"] = 0]
  /\ warm_i' = warm_i + 1
  /\ pcMain' = "warm_get"
  /\ UNCHANGED <<hasPsram, camera_initialized, wifi_connected,
                 server_started, led_mode, wifiStatus, camera_httpd,
                 snapshot_httpd, stream_delay_ms>>
  /\ UNCHANGED <<fbOut, held, pc, kind, fb, fbLen, res, ret, streamVars, captureVars>>
  /\ UNCHANGED ctlVars

\* initCamera returns true, camera_initialized is set, connectWiFi() starts
\* the association and setup() returns.
connectWiFi ==
  /\ pcMain = "warm_get"
  /\ warm_i >= WARMUP_FRAMES
  /\ camera_initialized' = TRUE
  /\ wifi_connected' = FALSE
  /\ pcMain' = "loop"
  /\ UNCHANGED <<hasPsram, warm_i, server_started, led_mode, wifiStatus,
                 camera_httpd, snapshot_httpd, stream_delay_ms>>
  /\ UNCHANGED <<fbOut, held, handlerVars>>
  /\ UNCHANGED ctlVars

\* variant: a lost connection clears the two flags and leaves the LED alone
checkWiFiStatus_keepled(timedOut) ==
  IF wifi_connected
    THEN IF wifiStatus # "WL_CONNECTED"
           THEN <<FALSE, FALSE, led_mode>>
           ELSE <<wifi_connected, server_started, led_mode>>
    ELSE IF wifiStatus = "WL_CONNECTED"
           THEN <<TRUE, server_started, led_mode>>
           ELSE IF wifiStatus \in {"WL_CONNECT_FAILED", "WL_NO_SSID_AVAIL"}
                     /\ timedOut
                  THEN <<wifi_connected, server_started,
                         setLedMode("LED_MODE_ERROR")>>
                  ELSE <<wifi_connected, server_started, led_mode>>

\* checkWiFiStatus: <<wifi_connected, server_started, led_mode>> after it
checkWiFiStatus(timedOut) ==
  IF wifi_connected
    THEN IF wifiStatus # "WL_CONNECTED"
           THEN <<FALSE, FALSE, setLedMode("LED_MODE_ERROR")>>
           ELSE <<wifi_connected, server_started, led_mode>>
    ELSE IF wifiStatus = "WL_CONNECTED"
           THEN <<TRUE, server_started, led_mode>>
           ELSE IF wifiStatus \in {"WL_CONNECT_FAILED", "WL_NO_SSID_AVAIL"}
                     /\ timedOut
                  THEN <<wifi_connected, server_started,
                         setLedMode("LED_MODE_ERROR")>>
                  ELSE <<wifi_connected, server_started, led_mode>>

\* variant: the test of camera_httpd at the top is missing
startCameraServer_noguard(start80, start81) ==
  IF ~start80
    THEN <<camera_httpd, snapshot_httpd, FALSE, 0, 0>>
    ELSE IF ~start81
           THEN <<TRUE, snapshot_httpd, FALSE, 1, 6>>
           ELSE <<TRUE, TRUE, TRUE, 2, 7>>

\* startCameraServer: <<camera_httpd, snapshot_httpd, server_started>> after
\* it, then the number of listeners it started and of URI handlers it
\* registered; start80 and start81 are the outcomes of the two httpd_start
\* calls
startCameraServer(start80, start81) ==
  IF camera_httpd
    THEN <<camera_httpd, snapshot_httpd, TRUE, 0, 0>>
    ELSE IF ~start80
           THEN <<FALSE, snapshot_httpd, FALSE, 0, 0>>
           ELSE IF ~start81
                  THEN <<TRUE, snapshot_httpd, FALSE, 1, 6>>
                  ELSE <<TRUE, TRUE, TRUE, 2, 7>>

\* variant: the server is started without a look at the camera
loop_start_due_nocamera(connected, initialized, started) ==
  connected /\ ~started

\* if (wifi_connected && camera_initialized && !server_started)
loop_start_due(connected, initialized, started) ==
  connected /\ initialized /\ ~started

\* one iteration of loop()
loop ==
  /\ pcMain = "loop"
  /\ \E timedOut \in BOOLEAN, start80 \in BOOLEAN, start81 \in BOOLEAN :
       LET w == checkWiFiStatus(timedOut)
           s == startCameraServer(start80, start81)
       IN IF loop_start_due(w[1], camera_initialized, w[2])
            THEN /\ wifi_connected' = w[1]
                 /\ camera_httpd' = s[1]
                 /\ snapshot_httpd' = s[2]
                 /\ server_started' = s[3]
                 /\ led_mode' = IF s[3] THEN setLedMode("LED_MODE_READY")
                                        ELSE setLedMode("LED_MODE_ERROR")
                 /\ lastStart' = [called |-> TRUE, pre80 |-> camera_httpd,
                                  pre81 |-> snapshot_httpd, started |-> s[4],
                                  registered |-> s[5], result |-> s[3],
                                  total80 |-> lastStart.total80
                                    + (IF s[4] >= 1 THEN 1 ELSE 0),
                                  total81 |-> lastStart.total81
                                    + (IF s[4] = 2 THEN 1 ELSE 0)]
            ELSE /\ wifi_connected' = w[1]
                 /\ server_started' = w[2]
                 /\ led_mode' = w[3]
                 /\ UNCHANGED <<camera_httpd, snapshot_httpd, lastStart>>
  /\ UNCHANGED <<hasPsram, pcMain, warm_i, camera_initialized, wifiStatus,
                 stream_delay_ms>>
  /\ UNCHANGED <<fbOut, held, handlerVars>>
  /\ UNCHANGED <<sensor, resp>>

\* the radio reports the association WiFi.begin asked for
WiFiAssociated ==
  /\ pcMain = "loop"
  /\ camera_initialized
  /\ wifiStatus # "WL_CONNECTED"
  /\ wifiStatus' = "WL_CONNECTED"
  /\ UNCHANGED <<hasPsram, pcMain, warm_i, camera_initialized, wifi_connected,
                 server_started, led_mode, camera_httpd, snapshot_httpd,
                 stream_delay_ms>>
  /\ UNCHANGED <<fbOut, held, handlerVars>>
  /\ UNCHANGED ctlVars

\* the values of wl_status_t
WlStatus ==
  {"WL_NO_SHIELD", "WL_IDLE_STATUS", "WL_NO_SSID_AVAIL", "WL_SCAN_COMPLETED",
   "WL_CONNECTED", "WL_CONNECT_FAILED", "WL_CONNECTION_LOST",
   "WL_DISCONNECTED"}

\* WiFi.status() is what the radio driver reports: once setup() is over it
\* may change to any value at any time
WiFiEvent ==
  /\ pcMain = "loop"
  /\ \E st \in WlStatus \ {wifiStatus} : wifiStatus' = st
  /\ UNCHANGED <<hasPsram, pcMain, warm_i, camera_initialized, wifi_connected,
                 server_started, led_mode, camera_httpd, snapshot_httpd,
                 stream_delay_ms>>
  /\ UNCHANGED <<fbOut, held, handlerVars>>
  /\ UNCHANGED ctlVars

(***************************************************************************)
(* /stream on port 80: stream_handler                                      *)
(***************************************************************************)

\* if (error_count > 10)
stream_error_exceeded(ec) == ec > ERROR_THRESHOLD

\* variant: the counter is left as it is when a frame was acquired
stream_error_reset_kept(ec) == ec

\* error_count = 0 after a frame was acquired
stream_error_reset(ec) == 0

\* variant: the camera frame is not returned at the end of an iteration
stream_free_frame_noreturn(fbv, jb) ==
  [fbReturn |-> FALSE, bufFree |-> fbv = "null" /\ jb # "null"]

\* variant: the encode buffer is not freed at the end of an iteration
stream_free_frame_nofree(fbv, jb) ==
  [fbReturn |-> fbv # "null", bufFree |-> FALSE]

\* "Free frame buffer" at the end of an iteration: which of
\* esp_camera_fb_return(fb) and free(_jpg_buf) is executed
stream_free_frame(fbv, jb) ==
  [fbReturn |-> fbv # "null", bufFree |-> fbv = "null" /\ jb # "null"]

\* "Cleanup" after the loop: the same two decisions
stream_cleanup_frame(fbv, jb) ==
  [fbReturn |-> fbv # "null", bufFree |-> jb # "null"]

\* variant: only the return value of frame2jpg is tested
stream_encode_failed_retonly(converted, buf, len) == ~converted

\* if (!jpeg_converted || !_jpg_buf || _jpg_buf_len == 0)
stream_encode_failed(converted, buf, len) ==
  ~converted \/ buf = "null" \/ len = 0

\* frame2jpg delivered a JPEG image: it reported success and left a buffer
\* of positive length
frame2jpg_ok(converted, buf, len) == converted /\ buf = "heap" /\ len > 0

\* variant: a failed send does not leave the loop
stream_send_failed_ignored(r) == FALSE

\* if (res != ESP_OK) break, after the part was sent
stream_send_failed(r) == r # "ESP_OK"

\* variant: the image bytes are sent whatever the earlier sends returned
stream_payload_due_always(r, jb, len) == jb # "null" /\ len > 0

\* the condition under which the image bytes are sent
stream_payload_due(r, jb, len) == r = "ESP_OK" /\ jb # "null" /\ len > 0

\* if (_jpg_buf) free(_jpg_buf) on the failure path of the conversion
stream_encode_fail_free(buf) == buf # "null"

\* variant: the loop is left with res as it was
stream_encode_fail_res_kept == "ESP_OK"

\* res = ESP_FAIL before the break on the failure path of the conversion
stream_encode_fail_res == "ESP_FAIL"

\* the handler is entered: locals are initialised, httpd_resp_set_type runs
\* and a failure of it returns at once
stream_handler_start ==
  /\ pc["p80"] = "idle"
  /\ camera_httpd
  /\ \E typeOk \in BOOLEAN :
       /\ res' = [res EXCEPT !["p80"] = IF typeOk THEN "ESP_OK" ELSE "ESP_FAIL"]
       /\ pc' = [pc EXCEPT !["p80"] = IF typeOk THEN "s_acquire" ELSE "idle"]
       /\ ret' = [ret EXCEPT !["p80"] = IF typeOk THEN "none" ELSE "ESP_FAIL"]
       /\ sess' = [NewSess EXCEPT !.closed = IF typeOk THEN "open" ELSE "early"]
  /\ kind' = [kind EXCEPT !["p80"] = "stream"]
  /\ fb' = [fb EXCEPT !["p80"] = "null"]
  /\ fbLen' = [fbLen EXCEPT !["p80"] = 0]
  /\ jpg_buf' = "null"
  /\ jpg_buf_len' = 0
  /\ cap' = [cap EXCEPT !["p80"] = NewCap]
  /\ UNCHANGED <<mainVars, fbOut, held, sleep, error_count, heapBufs,
                 retry, jchunk>>
  /\ UNCHANGED ctlVars

\* fb = esp_camera_fb_get() and the handling of a null frame
stream_fb_get ==
  /\ pc["p80"] = "s_acquire"
  /\ \E f \in esp_camera_fb_get :
       IF f = "null"
         THEN /\ error_count < MaxErrorCount
              /\ error_count' = error_count + 1
              /\ IF stream_error_exceeded(error_count + 1)
                   THEN /\ res' = [res EXCEPT !["p80"] = "ESP_FAIL"]
                        /\ pc' = [pc EXCEPT !["p80"] = "s_cleanup"]
                        /\ sess' = [sess EXCEPT !.fails = @ + 1,
                                                !.hadFail = TRUE,
                                                !.closed = "threshold"]
                        /\ UNCHANGED sleep
                   ELSE /\ sleep' = [sleep EXCEPT !["p80"] = STREAM_ERR_DELAY_MS]
                        /\ pc' = [pc EXCEPT !["p80"] = "s_errdelay"]
                        /\ sess' = [sess EXCEPT !.fails = @ + 1,
                                                !.hadFail = TRUE]
                        /\ UNCHANGED res
              /\ UNCHANGED <<fbOut, held, fb, fbLen>>
         ELSE /\ sess.encoded < MaxFrames
              /\ \E len \in FrameLens : fbLen' = [fbLen EXCEPT !["p80"] = len]
              /\ fbOut' = fbOut + 1
              /\ held' = [held EXCEPT !["p80"] = @ + 1]
              /\ fb' = [fb EXCEPT !["p80"] = f]
              /\ error_count' = stream_error_reset(error_count)
              /\ sess' = [sess EXCEPT !.fails = 0]
              /\ pc' = [pc EXCEPT !["p80"] = "s_encode"]
              /\ UNCHANGED <<res, sleep>>
  /\ UNCHANGED <<mainVars, kind, ret, jpg_buf, jpg_buf_len, heapBufs,
                 captureVars>>
  /\ UNCHANGED ctlVars

\* vTaskDelay(50 ms) after a failed acquire ends; continue
stream_error_delay ==
  /\ pc["p80"] = "s_errdelay"
  /\ sleep' = [sleep EXCEPT !["p80"] = 0]
  /\ pc' = [pc EXCEPT !["p80"] = "s_acquire"]
  /\ UNCHANGED <<mainVars, fbOut, held, kind, fb, fbLen, res, ret,
                 streamVars, captureVars>>
  /\ UNCHANGED ctlVars

\* the format test: a non-JPEG frame is converted with frame2jpg into a
\* buffer of its own and the camera frame is returned at once; a JPEG frame
\* is used in place
stream_encode ==
  /\ pc["p80"] = "s_encode"
  /\ IF fb["p80"] = "raw"
       THEN \E converted \in BOOLEAN, buf \in {"null", "heap"},
               len \in {0} \cup FrameLens :
              /\ fbOut' = fbOut - 1
              /\ held' = [held EXCEPT !["p80"] = @ - 1]
              /\ fb' = [fb EXCEPT !["p80"] = "null"]
              /\ jpg_buf_len' = len
              /\ IF stream_encode_failed(converted, buf, len)
                   THEN /\ heapBufs' = heapBufs
                                         + (IF buf = "heap" THEN 1 ELSE 0)
                                         - (IF stream_encode_fail_free(buf)
                                              THEN 1 ELSE 0)
                        /\ jpg_buf' = IF stream_encode_fail_free(buf)
                                        THEN "null" ELSE buf
                        /\ res' = [res EXCEPT !["p80"] =
                                     stream_encode_fail_res]
                        /\ sess' = [sess EXCEPT !.closed = "encode"]
                        /\ pc' = [pc EXCEPT !["p80"] = "s_cleanup"]
                   ELSE /\ heapBufs' = heapBufs
                                         + (IF buf = "heap" THEN 1 ELSE 0)
                        /\ jpg_buf' = buf
                        /\ sess' = [sess EXCEPT !.encoded =
                                      IF frame2jpg_ok(converted, buf, len)
                                        THEN @ + 1 ELSE @]
                        /\ pc' = [pc EXCEPT !["p80"] = "s_boundary"]
                        /\ UNCHANGED res
       ELSE /\ jpg_buf_len' = fbLen["p80"]
            /\ jpg_buf' = "fb"
            /\ sess' = [sess EXCEPT !.encoded = @ + 1]
            /\ pc' = [pc EXCEPT !["p80"] = "s_boundary"]
            /\ UNCHANGED <<fbOut, held, fb, res, heapBufs>>
  /\ UNCHANGED <<mainVars, kind, fbLen, ret, sleep, error_count, captureVars>>
  /\ UNCHANGED ctlVars

\* res = httpd_resp_send_chunk(req, _STREAM_BOUNDARY, ...) when res is ESP_OK
stream_send_boundary ==
  /\ pc["p80"] = "s_boundary"
  /\ IF res["p80"] = "ESP_OK"
       THEN \E ok \in BOOLEAN :
              /\ res' = [res EXCEPT !["p80"] = IF ok THEN "ESP_OK" ELSE "ESP_FAIL"]
              /\ sess' = [sess EXCEPT
                            !.boundaries = IF ok THEN @ + 1 ELSE @,
                            !.bFail = ~ok,
                            !.failAt = IF ~ok /\ @ = 0 THEN sess.encoded ELSE @]
       ELSE UNCHANGED <<res, sess>>
  /\ pc' = [pc EXCEPT !["p80"] = "s_header"]
  /\ UNCHANGED <<mainVars, fbOut, held, kind, fb, fbLen, ret, sleep,
                 error_count, jpg_buf, jpg_buf_len, heapBufs, captureVars>>
  /\ UNCHANGED ctlVars

\* the part header is formatted with Content-Length _jpg_buf_len and sent
\* when it fits part_buf
stream_send_header ==
  /\ pc["p80"] = "s_header"
  /\ IF res["p80"] = "ESP_OK"
       THEN IF MAX_PART_HEADER_LEN < PART_BUF_SIZE
              THEN \E ok \in BOOLEAN :
                     /\ res' = [res EXCEPT !["p80"] =
                                  IF ok THEN "ESP_OK" ELSE "ESP_FAIL"]
                     /\ sess' = [sess EXCEPT
                                   !.headers = IF ok THEN @ + 1 ELSE @,
                                   !.hdrLen = IF ok THEN jpg_buf_len ELSE @,
                                   !.failAt = IF ~ok /\ @ = 0
                                                THEN sess.encoded ELSE @]
              ELSE /\ res' = [res EXCEPT !["p80"] = "ESP_FAIL"]
                   /\ UNCHANGED sess
       ELSE UNCHANGED <<res, sess>>
  /\ pc' = [pc EXCEPT !["p80"] = "s_payload"]
  /\ UNCHANGED <<mainVars, fbOut, held, kind, fb, fbLen, ret, sleep,
                 error_count, jpg_buf, jpg_buf_len, heapBufs, captureVars>>
  /\ UNCHANGED ctlVars

\* the image bytes are sent when res is ESP_OK and there is a buffer
stream_send_payload ==
  /\ pc["p80"] = "s_payload"
  /\ IF stream_payload_due(res["p80"], jpg_buf, jpg_buf_len)
       THEN \E ok \in BOOLEAN :
              /\ res' = [res EXCEPT !["p80"] = IF ok THEN "ESP_OK" ELSE "ESP_FAIL"]
              /\ sess' = [sess EXCEPT
                            !.payloads = IF ok THEN @ + 1 ELSE @,
                            !.sentLen = IF ok THEN jpg_buf_len ELSE @,
                            !.failAt = IF ~ok /\ @ = 0 THEN sess.encoded ELSE @]
       ELSE UNCHANGED <<res, sess>>
  /\ pc' = [pc EXCEPT !["p80"] = "s_release"]
  /\ UNCHANGED <<mainVars, fbOut, held, kind, fb, fbLen, ret, sleep,
                 error_count, jpg_buf, jpg_buf_len, heapBufs, captureVars>>
  /\ UNCHANGED ctlVars

\* FreeRTOS runs at 1000 ticks per second in this build
portTICK_PERIOD_MS == 1

\* variant: the delay of the start is used whatever is configured
stream_pace_ticks_default(delay) ==
  DEFAULT_STREAM_DELAY_MS \div portTICK_PERIOD_MS

\* the ticks handed to vTaskDelay after a part
stream_pace_ticks(delay) == delay \div portTICK_PERIOD_MS

\* "Free frame buffer", then the test of res: break, or vTaskDelay of the
\* configured pacing delay
stream_release ==
  /\ pc["p80"] = "s_release"
  /\ LET d == stream_free_frame(fb["p80"], jpg_buf)
     IN /\ fbOut' = IF d.fbReturn THEN fbOut - 1 ELSE fbOut
        /\ held' = IF d.fbReturn THEN [held EXCEPT !["p80"] = @ - 1] ELSE held
        /\ fb' = IF d.fbReturn THEN [fb EXCEPT !["p80"] = "null"] ELSE fb
        /\ heapBufs' = IF d.bufFree THEN heapBufs - 1 ELSE heapBufs
        /\ jpg_buf' = IF d.fbReturn \/ d.bufFree THEN "null" ELSE jpg_buf
  /\ IF stream_send_failed(res["p80"])
       THEN /\ pc' = [pc EXCEPT !["p80"] = "s_cleanup"]
            /\ sess' = [sess EXCEPT !.closed = "send", !.hdrLen = 0,
                                    !.sentLen = 0]
            /\ UNCHANGED sleep
       ELSE /\ pc' = [pc EXCEPT !["p80"] = "s_pace"]
            /\ sleep' = [sleep EXCEPT !["p80"] =
                          stream_pace_ticks(stream_delay_ms)
                            * portTICK_PERIOD_MS]
            /\ sess' = [sess EXCEPT !.paced = @ + 1, !.hdrLen = 0,
                                    !.sentLen = 0]
  /\ UNCHANGED <<mainVars, kind, fbLen, res, ret, error_count, jpg_buf_len,
                 captureVars>>
  /\ UNCHANGED ctlVars

\* the pacing delay ends; next iteration
stream_pace ==
  /\ pc["p80"] = "s_pace"
  /\ sleep' = [sleep EXCEPT !["p80"] = 0]
  /\ pc' = [pc EXCEPT !["p80"] = "s_acquire"]
  /\ UNCHANGED <<mainVars, fbOut, held, kind, fb, fbLen, res, ret,
                 streamVars, captureVars>>
  /\ UNCHANGED ctlVars

\* "Cleanup" after the loop and return res
stream_cleanup ==
  /\ pc["p80"] = "s_cleanup"
  /\ LET d == stream_cleanup_frame(fb["p80"], jpg_buf)
     IN /\ fbOut' = IF d.fbReturn THEN fbOut - 1 ELSE fbOut
        /\ held' = IF d.fbReturn THEN [held EXCEPT !["p80"] = @ - 1] ELSE held
        /\ heapBufs' = IF d.bufFree THEN heapBufs - 1 ELSE heapBufs
        /\ jpg_buf' = IF d.bufFree THEN "null" ELSE jpg_buf
  /\ fb' = [fb EXCEPT !["p80"] = "null"]
  /\ ret' = [ret EXCEPT !["p80"] = res["p80"]]
  /\ pc' = [pc EXCEPT !["p80"] = "idle"]
  /\ jpg_buf_len' = 0
  /\ fbLen' = [fbLen EXCEPT !["p80"] = 0]
  /\ UNCHANGED <<mainVars, kind, res, sleep, error_count, sess, captureVars>>
  /\ UNCHANGED ctlVars

(***************************************************************************)
(* /capture on port 80 and /snapshot on port 81: capture_handler           *)
(***************************************************************************)

\* the listener whose task t is has been started
Listening(t) == IF t = "p80" THEN camera_httpd ELSE snapshot_httpd

\* variant: one attempt fewer
capture_retry_budget_short == MAX_RETRIES - 1

\* for (int retry = 0; retry < MAX_RETRIES; retry++): the attempts allowed
capture_retry_budget == MAX_RETRIES

\* variant: a backoff follows every failed attempt, the last one too
capture_backoff_due_always(r) == r < MAX_RETRIES

\* if (retry < MAX_RETRIES - 1): a backoff follows the failed attempt
capture_backoff_due(r) == r < MAX_RETRIES - 1

\* variant: the frame is not returned
capture_fb_returns_none(fbv) == 0

\* esp_camera_fb_return(fb) before return res: how many times it runs
capture_fb_returns(fbv) == 1

\* variant: the outcome of the write is not looked at
jpg_encode_stream_nocheck(j, index, len, sendOk) ==
  LET j0 == IF index = 0 THEN 0 ELSE j
  IN [len |-> j0 + len, accepted |-> len]

\* jpg_encode_stream: the sink of the streamed encoder.  j is the
\* jpg_chunking_t length, index the encoder's byte index, len the chunk
\* length and sendOk the outcome of httpd_resp_send_chunk.
jpg_encode_stream(j, index, len, sendOk) ==
  LET j0 == IF index = 0 THEN 0 ELSE j
  IN IF ~sendOk THEN [len |-> j0, accepted |-> 0]
                ELSE [len |-> j0 + len, accepted |-> len]

\* the handler is entered: fb = nullptr, res = ESP_FAIL, retry = 0
capture_handler_start(t) ==
  /\ pc[t] = "idle"
  /\ Listening(t)
  /\ pc' = [pc EXCEPT ![t] = "c_acquire"]
  /\ kind' = [kind EXCEPT ![t] = "capture"]
  /\ fb' = [fb EXCEPT ![t] = "null"]
  /\ fbLen' = [fbLen EXCEPT ![t] = 0]
  /\ res' = [res EXCEPT ![t] = "ESP_FAIL"]
  /\ ret' = [ret EXCEPT ![t] = "none"]
  /\ retry' = [retry EXCEPT ![t] = 0]
  /\ jchunk' = [jchunk EXCEPT ![t] = [len |-> 0, index |-> 0]]
  /\ cap' = [cap EXCEPT ![t] = NewCap]
  /\ sess' = IF t = "p80" THEN NewSess ELSE sess
  /\ UNCHANGED <<mainVars, fbOut, held, sleep, error_count, jpg_buf,
                 jpg_buf_len, heapBufs>>
  /\ UNCHANGED ctlVars

\* one pass of the retry loop: fb = esp_camera_fb_get(); a frame leaves the
\* loop, a failure either starts the backoff or, on the last attempt, ends
\* the loop, and then httpd_resp_send_500 and return ESP_FAIL follow
capture_fb_get(t) ==
  /\ pc[t] = "c_acquire"
  /\ retry[t] < capture_retry_budget
  /\ \E f \in esp_camera_fb_get :
       IF f # "null"
         THEN /\ \E len \in FrameLens : fbLen' = [fbLen EXCEPT ![t] = len]
              /\ fbOut' = fbOut + 1
              /\ held' = [held EXCEPT ![t] = @ + 1]
              /\ fb' = [fb EXCEPT ![t] = f]
              /\ cap' = [cap EXCEPT ![t].attempts = @ + 1, ![t].got = TRUE]
              /\ pc' = [pc EXCEPT ![t] = "c_send"]
              /\ UNCHANGED <<retry, sleep, ret>>
         ELSE IF capture_backoff_due(retry[t])
                THEN /\ sleep' = [sleep EXCEPT ![t] = RETRY_DELAY_MS]
                     /\ cap' = [cap EXCEPT ![t].attempts = @ + 1,
                                           ![t].backoffs = @ + 1]
                     /\ pc' = [pc EXCEPT ![t] = "c_backoff"]
                     /\ UNCHANGED <<fbOut, held, fb, fbLen, retry, ret>>
                ELSE IF retry[t] + 1 < capture_retry_budget
                       THEN /\ retry' = [retry EXCEPT ![t] = @ + 1]
                            /\ cap' = [cap EXCEPT ![t].attempts = @ + 1]
                            /\ UNCHANGED <<fbOut, held, fb, fbLen, sleep,
                                           ret, pc>>
                       ELSE /\ retry' = [retry EXCEPT ![t] = 0]
                            /\ cap' = [cap EXCEPT ![t].attempts = @ + 1,
                                                  ![t].status = "500"]
                            /\ ret' = [ret EXCEPT ![t] = "ESP_FAIL"]
                            /\ pc' = [pc EXCEPT ![t] = "idle"]
                            /\ UNCHANGED <<fbOut, held, fb, fbLen, sleep>>
  /\ UNCHANGED <<mainVars, kind, res, jchunk, streamVars>>
  /\ UNCHANGED ctlVars

\* vTaskDelay(RETRY_DELAY_MS) ends; retry++ and the loop condition: either
\* the next attempt, or the loop is left without a frame and
\* httpd_resp_send_500 and return ESP_FAIL follow
capture_backoff(t) ==
  /\ pc[t] = "c_backoff"
  /\ sleep' = [sleep EXCEPT ![t] = 0]
  /\ IF retry[t] + 1 < capture_retry_budget
       THEN /\ retry' = [retry EXCEPT ![t] = @ + 1]
            /\ pc' = [pc EXCEPT ![t] = "c_acquire"]
            /\ UNCHANGED <<ret, cap>>
       ELSE /\ retry' = [retry EXCEPT ![t] = 0]
            /\ cap' = [cap EXCEPT ![t].status = "500"]
            /\ ret' = [ret EXCEPT ![t] = "ESP_FAIL"]
            /\ pc' = [pc EXCEPT ![t] = "idle"]
  /\ UNCHANGED <<mainVars, fbOut, held, kind, fb, fbLen, res, jchunk,
                 streamVars>>
  /\ UNCHANGED ctlVars

\* the response headers are set; a JPEG frame is sent with httpd_resp_send,
\* any other frame starts frame2jpg_cb with jchunk = {req, 0}
capture_send(t) ==
  /\ pc[t] = "c_send"
  /\ IF fb[t] = "jpeg"
       THEN \E ok \in BOOLEAN :
              /\ res' = [res EXCEPT ![t] = IF ok THEN "ESP_OK" ELSE "ESP_FAIL"]
              /\ cap' = [cap EXCEPT ![t].hdrs = TRUE,
                                    ![t].sendOk = ok,
                                    ![t].status = IF ok THEN "200" ELSE @,
                                    ![t].body = IF ok THEN "full" ELSE @]
              /\ pc' = [pc EXCEPT ![t] = "c_release"]
              /\ UNCHANGED jchunk
       ELSE /\ jchunk' = [jchunk EXCEPT ![t] = [len |-> 0, index |-> 0]]
            /\ cap' = [cap EXCEPT ![t].hdrs = TRUE]
            /\ pc' = [pc EXCEPT ![t] = "c_chunk"]
            /\ UNCHANGED res
  /\ UNCHANGED <<mainVars, fbOut, held, kind, fb, fbLen, ret, sleep, retry,
                 streamVars>>
  /\ UNCHANGED ctlVars

\* the lengths of the chunks frame2jpg_cb hands to its sink
ChunkLens == {2}

\* what frame2jpg_cb does after its sink accepted less than the chunk: the
\* library, not this code, decides whether the conversion stops there
frame2jpg_cb_stops == BOOLEAN

\* the client did not get a chunk of the body
Rejected(body) == body \in {"broken", "cut"}

\* frame2jpg_cb hands one more chunk to jpg_encode_stream and adds what the
\* sink accepted to its index; after a chunk the sink did not accept the
\* conversion either stops, and frame2jpg_cb returns false, or goes on
capture_chunk(t) ==
  /\ pc[t] = "c_chunk"
  /\ cap[t].chunks < MaxChunks
  /\ \E len \in ChunkLens, sendOk \in BOOLEAN, stops \in frame2jpg_cb_stops :
       LET r == jpg_encode_stream(jchunk[t].len, jchunk[t].index, len, sendOk)
           w == cap[t].written + (IF sendOk THEN len ELSE 0)
           b == IF ~sendOk
                  THEN IF r.accepted # len /\ stops THEN "cut" ELSE "broken"
                  ELSE IF Rejected(cap[t].body) THEN cap[t].body
                  ELSE "partial"
       IN /\ jchunk' = [jchunk EXCEPT ![t] =
                          [len |-> r.len,
                           index |-> jchunk[t].index + r.accepted]]
          /\ IF r.accepted = len
               THEN /\ cap' = [cap EXCEPT ![t].chunks = @ + 1,
                                          ![t].status = "200",
                                          ![t].body = b,
                                          ![t].written = w]
                    /\ UNCHANGED <<res, pc>>
               ELSE IF stops
                      THEN /\ cap' = [cap EXCEPT ![t].chunks = 0,
                                                 ![t].body = b,
                                                 ![t].written = w]
                           /\ res' = [res EXCEPT ![t] = "ESP_FAIL"]
                           /\ pc' = [pc EXCEPT ![t] = "c_release"]
                      ELSE /\ cap' = [cap EXCEPT ![t].body = b,
                                                 ![t].written = w]
                           /\ UNCHANGED <<res, pc>>
  /\ UNCHANGED <<mainVars, fbOut, held, kind, fb, fbLen, ret, sleep, retry,
                 streamVars>>
  /\ UNCHANGED ctlVars

\* frame2jpg_cb returns without a further chunk: true at the end of the
\* image, false when the conversion itself fails; the terminating empty
\* chunk is sent
capture_encode_end(t) ==
  /\ pc[t] = "c_chunk"
  /\ \E encOk \in BOOLEAN :
       /\ encOk => (cap[t].chunks > 0 \/ Rejected(cap[t].body))
       /\ res' = [res EXCEPT ![t] = IF encOk THEN "ESP_OK" ELSE "ESP_FAIL"]
       /\ cap' = [cap EXCEPT ![t].body = IF encOk /\ ~Rejected(@)
                                           THEN "full" ELSE @,
                             ![t].sendOk = encOk /\ ~Rejected(cap[t].body),
                             ![t].chunks = 0]
  /\ pc' = [pc EXCEPT ![t] = "c_release"]
  /\ UNCHANGED <<mainVars, fbOut, held, kind, fb, fbLen, ret, sleep, retry,
                 jchunk, streamVars>>
  /\ UNCHANGED ctlVars

\* esp_camera_fb_return(fb); return res
capture_release(t) ==
  /\ pc[t] = "c_release"
  /\ LET n == capture_fb_returns(fb[t])
     IN /\ fbOut' = fbOut - n
        /\ held' = [held EXCEPT ![t] = @ - n]
        /\ cap' = [cap EXCEPT ![t].released = @ + n, ![t].written = 0]
  /\ fb' = [fb EXCEPT ![t] = "null"]
  /\ ret' = [ret EXCEPT ![t] = res[t]]
  /\ pc' = [pc EXCEPT ![t] = "idle"]
  /\ fbLen' = [fbLen EXCEPT ![t] = 0]
  /\ retry' = [retry EXCEPT ![t] = 0]
  /\ jchunk' = [jchunk EXCEPT ![t] = [len |-> 0, index |-> 0]]
  /\ UNCHANGED <<mainVars, kind, res, sleep, streamVars>>
  /\ UNCHANGED ctlVars

(***************************************************************************)
(* The system                                                              *)
(***************************************************************************)
(***************************************************************************)
(* /control, /status and /health on port 80                                *)
(***************************************************************************)

\* the int range of the build: atoi returns an int
INT_MAX == 2147483647
INT_MIN == -INT_MAX - 1

\* limits of cmd_handler
QUALITY_MIN == 5
QUALITY_MAX == 63
STREAM_DELAY_MIN == 33
STREAM_DELAY_MAX == 500

KnownVars == {"framesize", "quality", "stream_delay", "vflip", "hmirror"}

\* "zoom" stands for every name cmd_handler does not compare with
Variables == KnownVars \cup {"zoom"}

\* val as a number: the request carries its decimal text
Num(n) == [text |-> "num", num |-> n]

\* val as a word; "huge" stands for a decimal text beyond the int range
Word(w) == [text |-> w, num |-> 0]

\* the values requests carry for each variable
ValuesOf(variable) ==
  CASE variable = "framesize" ->
         {Num(-1), Num(0), Num(10), Num(22), Word("SVGA"), Word("fhd"),
          Word("1080p"), Word("abc"), Word("huge")}
    [] variable = "quality" ->
         {Num(INT_MIN), Num(4), Num(10), Num(64), Num(999), Num(INT_MAX),
          Word("huge")}
    [] variable = "stream_delay" ->
         {Num(-1), Num(64), Num(501), Num(INT_MAX), Word("abc")}
    [] variable = "vflip" -> {Num(-1), Num(0), Num(1), Num(4)}
    [] variable = "hmirror" -> {Num(0), Num(1), Num(999)}
    [] OTHER -> {Num(1), Word("abc")}

NoQuery == [form |-> "none", variable |-> "zoom", value |-> Word("abc")]

\* the query of a /control request: absent, without var, without val, or
\* with both; the buffer of a key that was not read is shown with the
\* content of NoQuery
Queries ==
  {NoQuery, [NoQuery EXCEPT !.form = "novar"]}
    \cup {[form |-> "noval", variable |-> v, value |-> NoQuery.value] :
             v \in Variables}
    \cup UNION {[form : {"ok"}, variable : {v}, value : ValuesOf(v)] :
                  v \in Variables}

NoBody == [kind |-> "none"]

\* what atoi can return for the text: the number, the leading digits, 0
\* where there are none; beyond the int range the behaviour is undefined
atoi(value) ==
  CASE value.text = "num" -> {value.num}
    [] value.text = "1080p" -> {1080}
    [] value.text = "huge" -> {INT_MIN, -1, 0, INT_MAX}
    [] OTHER -> {0}

\* the text in lower case, as strcasecmp compares it
tolower(text) ==
  CASE text = "SVGA" -> "svga"
    [] text = "FHD" -> "fhd"
    [] OTHER -> text

\* framesize_from_value, idx being what atoi(value) returned
framesize_from_value(value, idx) ==
  IF tolower(value.text) = "svga"
    THEN FRAMESIZE_SVGA
    ELSE IF tolower(value.text) = "fhd" \/ tolower(value.text) = "1080p"
           THEN FRAMESIZE_FHD
           ELSE IF idx >= 0 /\ idx < FRAMESIZE_INVALID
                  THEN idx
                  ELSE FRAMESIZE_SVGA

framesize_name(size) ==
  IF size = FRAMESIZE_FHD THEN "FHD"
  ELSE IF size = FRAMESIZE_SVGA THEN "SVGA"
  ELSE "CUSTOM"

\* variant: a query without val passes
cmd_parse_noval(q) ==
  IF q.form \in {"ok", "noval"} THEN "ESP_OK" ELSE "ESP_FAIL"

\* httpd_req_get_url_query_str and the two httpd_query_key_value calls
cmd_parse(q) ==
  IF q.form = "ok" THEN "ESP_OK" ELSE "ESP_FAIL"

\* variant: the size is not limited without PSRAM
framesize_limit_none(target) == target

\* the size cmd_handler hands to set_framesize
framesize_limit(target) ==
  IF ~hasPsram /\ target > FRAMESIZE_SVGA THEN FRAMESIZE_SVGA ELSE target

\* variant: the quality is not clamped
quality_clamp_none(val) == val

quality_clamp(val) ==
  IF val < QUALITY_MIN THEN QUALITY_MIN
  ELSE IF val > QUALITY_MAX THEN QUALITY_MAX
  ELSE val

\* variant: only the lower limit of the delay is enforced
stream_delay_clamp_lower(val) ==
  IF val < STREAM_DELAY_MIN THEN STREAM_DELAY_MIN ELSE val

stream_delay_clamp(val) ==
  IF val < STREAM_DELAY_MIN THEN STREAM_DELAY_MIN
  ELSE IF val > STREAM_DELAY_MAX THEN STREAM_DELAY_MAX
  ELSE val

flip_clamp(val) ==
  IF val < 0 THEN 0 ELSE IF val > 1 THEN 1 ELSE val

\* a setter of the sensor driver: it writes the field of s->status and
\* returns ESP_OK, or fails and leaves the field
sensor_set(field, v, ok) ==
  IF ok THEN <<[sensor EXCEPT ![field] = v], "ESP_OK">>
        ELSE <<sensor, "ESP_FAIL">>

\* the branches of cmd_handler on variable: <<sensor, stream_delay_ms, res>>
\* after them, val being atoi(value) and ok the outcome of the setter
cmd_apply(variable, value, val, ok) ==
  CASE variable = "framesize" ->
         LET r == sensor_set("framesize",
                    framesize_limit(framesize_from_value(value, val)), ok)
         IN  <<r[1], stream_delay_ms, r[2]>>
    [] variable = "quality" ->
         LET r == sensor_set("quality", quality_clamp(val), ok)
         IN  <<r[1], stream_delay_ms, r[2]>>
    [] variable = "stream_delay" ->
         <<sensor, stream_delay_clamp(val) % 65536, "ESP_OK">>
    [] variable = "vflip" ->
         LET r == sensor_set("vflip", flip_clamp(val), ok)
         IN  <<r[1], stream_delay_ms, r[2]>>
    [] variable = "hmirror" ->
         LET r == sensor_set("hmirror", flip_clamp(val), ok)
         IN  <<r[1], stream_delay_ms, r[2]>>
    [] OTHER -> <<sensor, stream_delay_ms, "ESP_FAIL">>

\* the status line cmd_handler answers with after the branches
cmd_status(r) == IF r # "ESP_OK" THEN "500" ELSE "200"

\* the malloc of the query buffer is taken to succeed
cmd_handler(q) ==
  /\ camera_httpd
  /\ pc["p80"] = "idle"
  /\ IF q.form = "none" \/ cmd_parse(q) # "ESP_OK"
       THEN /\ resp' = [handler |-> "control", status |-> "404", q |-> q,
                        changed |-> FALSE, body |-> NoBody]
            /\ UNCHANGED <<sensor, stream_delay_ms>>
       ELSE IF ~sensor.present
         THEN /\ resp' = [handler |-> "control", status |-> "500", q |-> q,
                          changed |-> FALSE, body |-> NoBody]
              /\ UNCHANGED <<sensor, stream_delay_ms>>
         ELSE \E val \in atoi(q.value), ok \in BOOLEAN :
                LET r == cmd_apply(q.variable, q.value, val, ok)
                IN  /\ sensor' = r[1]
                    /\ stream_delay_ms' = r[2]
                    /\ resp' = [handler |-> "control",
                                status |-> cmd_status(r[3]), q |-> q,
                                changed |-> r[1] # sensor
                                              \/ r[2] # stream_delay_ms,
                                body |-> NoBody]
  /\ UNCHANGED <<hasPsram, pcMain, warm_i, camera_initialized, wifi_connected,
                 server_started, led_mode, wifiStatus, camera_httpd,
                 snapshot_httpd, lastStart>>
  /\ UNCHANGED <<fbOut, held, handlerVars>>

\* signal strengths WiFi.RSSI() returns
RssiValues == {-60, 0}

\* variant: the delay reported is the one of the start
status_json_stale(rssi) ==
  [kind |-> "status", framesize |-> sensor.framesize,
   framesize_name |-> framesize_name(sensor.framesize),
   quality |-> sensor.quality, stream_delay |-> DEFAULT_STREAM_DELAY_MS,
   vflip |-> sensor.vflip, hmirror |-> sensor.hmirror, wifi_rssi |-> rssi]

\* the JSON object status_handler prints
status_json(rssi) ==
  [kind |-> "status", framesize |-> sensor.framesize,
   framesize_name |-> framesize_name(sensor.framesize),
   quality |-> sensor.quality, stream_delay |-> stream_delay_ms,
   vflip |-> sensor.vflip, hmirror |-> sensor.hmirror, wifi_rssi |-> rssi]

status_handler ==
  /\ camera_httpd
  /\ pc["p80"] = "idle"
  /\ IF ~sensor.present
       THEN resp' = [handler |-> "status", status |-> "500", q |-> NoQuery,
                     changed |-> FALSE, body |-> NoBody]
       ELSE \E rssi \in RssiValues :
              resp' = [handler |-> "status", status |-> "200", q |-> NoQuery,
                       changed |-> FALSE, body |-> status_json(rssi)]
  /\ UNCHANGED <<mainVars, fbOut, held, handlerVars, sensor, lastStart>>

\* variant: one of the three is enough
health_status_any(camera_ok, wifi_ok, server_ok) ==
  IF camera_ok \/ wifi_ok \/ server_ok THEN "OK" ELSE "ERROR"

health_status(camera_ok, wifi_ok, server_ok) ==
  IF camera_ok /\ wifi_ok /\ server_ok THEN "OK" ELSE "ERROR"

\* health_handler reads the sensor pointer, WiFi.status() and camera_httpd
\* whatever they are
health_handler ==
  /\ pc["p80"] = "idle"
  /\ LET camera_ok == sensor.present
         wifi_ok == wifiStatus = "WL_CONNECTED"
         server_ok == camera_httpd
     IN  resp' = [handler |-> "health", status |-> "200", q |-> NoQuery,
                  changed |-> FALSE,
                  body |-> [kind |-> "health",
                            status |-> health_status(camera_ok, wifi_ok,
                                                     server_ok),
                            camera |-> camera_ok, wifi |-> wifi_ok,
                            server |-> server_ok]]
  /\ UNCHANGED <<mainVars, fbOut, held, handlerVars, sensor, lastStart>>

Next ==
  \/ initCamera
  \/ warmupCamera_get
  \/ warmupCamera_return
  \/ warmupCamera_delay
  \/ connectWiFi
  \/ loop
  \/ WiFiAssociated
  \/ stream_handler_start
  \/ stream_fb_get
  \/ stream_error_delay
  \/ stream_encode
  \/ stream_send_boundary
  \/ stream_send_header
  \/ stream_send_payload
  \/ stream_release
  \/ stream_pace
  \/ stream_cleanup
  \/ \E t \in HttpTasks : capture_handler_start(t)
  \/ \E t \in HttpTasks : capture_fb_get(t)
  \/ \E t \in HttpTasks : capture_backoff(t)
  \/ \E t \in HttpTasks : capture_send(t)
  \/ \E t \in HttpTasks : capture_chunk(t)
  \/ \E t \in HttpTasks : capture_encode_end(t)
  \/ \E t \in HttpTasks : capture_release(t)

Spec == Init /\ [][Next]_vars

\* the start, then /control and /status requests
NextCtl ==
  \/ initCamera
  \/ warmupCamera_get
  \/ warmupCamera_return
  \/ warmupCamera_delay
  \/ connectWiFi
  \/ loop
  \/ WiFiAssociated
  \/ \E q \in Queries : cmd_handler(q)
  \/ status_handler

SpecCtl == Init /\ [][NextCtl]_vars

\* the control requests that set the pacing delay
DelayQueries == {q \in Queries : q.form = "ok" /\ q.variable = "stream_delay"}

\* the start, stream sessions, and control requests for the pacing delay
\* between them
NextStream ==
  \/ initCamera
  \/ warmupCamera_get
  \/ warmupCamera_return
  \/ warmupCamera_delay
  \/ connectWiFi
  \/ loop
  \/ WiFiAssociated
  \/ \E q \in DelayQueries : cmd_handler(q)
  \/ stream_handler_start
  \/ stream_fb_get
  \/ stream_error_delay
  \/ stream_encode
  \/ stream_send_boundary
  \/ stream_send_header
  \/ stream_send_payload
  \/ stream_release
  \/ stream_pace
  \/ stream_cleanup

SpecStream == Init /\ [][NextStream]_vars

\* the main task and the radio: start-up, loop iterations, and the WiFi
\* status changing in any way
NextSys ==
  \/ initCamera
  \/ warmupCamera_get
  \/ warmupCamera_return
  \/ warmupCamera_delay
  \/ connectWiFi
  \/ loop
  \/ WiFiEvent

SpecSys == Init /\ [][NextSys]_vars

\* loop() is called again and again by the Arduino loopTask
SpecSysFair == SpecSys /\ WF_vars(loop)

\* health_handler as a function of what it reads: the sensor pointer,
\* WiFi.status() and camera_httpd take every value
InitHealth ==
  /\ hasPsram \in BOOLEAN
  /\ sensor \in {NoSensor, SensorDefaults}
  /\ wifiStatus \in WlStatus
  /\ camera_httpd \in BOOLEAN
  /\ pcMain = "loop"
  /\ warm_i = 0
  /\ camera_initialized = sensor.present
  /\ wifi_connected = FALSE
  /\ server_started = FALSE
  /\ led_mode = "LED_MODE_CONNECTING"
  /\ snapshot_httpd = FALSE
  /\ stream_delay_ms = DEFAULT_STREAM_DELAY_MS
  /\ fbOut = 0
  /\ pc = [t \in HttpTasks |-> "idle"]
  /\ kind = [t \in HttpTasks |-> "none"]
  /\ fb = [t \in HttpTasks |-> "null"]
  /\ fbLen = [t \in HttpTasks |-> 0]
  /\ res = [t \in HttpTasks |-> "ESP_OK"]
  /\ ret = [t \in HttpTasks |-> "none"]
  /\ held = [t \in Tasks |-> 0]
  /\ sleep = [t \in Tasks |-> 0]
  /\ error_count = 0
  /\ jpg_buf = "null"
  /\ jpg_buf_len = 0
  /\ heapBufs = 0
  /\ sess = NewSess
  /\ retry = [t \in HttpTasks |-> 0]
  /\ jchunk = [t \in HttpTasks |-> [len |-> 0, index |-> 0]]
  /\ cap = [t \in HttpTasks |-> NewCap]
  /\ resp = NoResp
  /\ lastStart = NoStart

NextHealth == health_handler

SpecHealth == InitHealth /\ [][NextHealth]_vars

TypeOK ==
  /\ fbOut \in Int
  /\ error_count \in 0..MaxErrorCount

(***************************************************************************)
(* Properties                                                              *)
(***************************************************************************)

StreamOn == kind["p80"] = "stream"
CaptureOn(t) == kind[t] = "capture"
CaptureDone(t) == kind[t] = "capture" /\ pc[t] = "idle" /\ ret[t] # "none"

\* C1: in every interleaving of stream sessions, capture and snapshot
\* requests and the warm-up, the frames acquired from the camera and not yet
\* returned never number more than fb_count, they are exactly the frames the
\* tasks hold, and no task holds more than one frame at a time.
C1_FramesBounded ==
  /\ fbOut <= fb_count
  /\ \A t \in Tasks : held[t] \in 0..1
  /\ fbOut = held["main"] + held["p80"] + held["p81"]

\* both buffers of the pool are out: one held by the stream session, the
\* other by a snapshot request on port 81
C1_Witness ==
  /\ hasPsram /\ fbOut = 2
  /\ StreamOn /\ held["p80"] = 1 /\ fb["p80"] # "null"
  /\ CaptureOn("p81") /\ held["p81"] = 1

\* C2: a stream session returns every camera frame it acquired exactly once
\* and frees every encode buffer it allocated exactly once: it never holds
\* more than one of either, never both, its local pointers say what it
\* holds, and it holds nothing between two iterations or after it returned.
C2_StreamReleasesOnce ==
  StreamOn =>
    /\ held["p80"] \in 0..1
    /\ heapBufs \in 0..1
    /\ held["p80"] + heapBufs <= 1
    /\ (fb["p80"] # "null") <=> (held["p80"] = 1)
    /\ (jpg_buf = "heap") <=> (heapBufs = 1)
    /\ (jpg_buf = "fb") => (fb["p80"] = "jpeg")
    /\ pc["p80"] \in {"s_acquire", "s_errdelay", "s_pace", "idle"} =>
         /\ held["p80"] = 0
         /\ heapBufs = 0
         /\ jpg_buf = "null"

\* a session that delivered parts and then returned after a failed send
C2_Witness ==
  /\ StreamOn /\ pc["p80"] = "idle" /\ sess.closed = "send"
  /\ sess.payloads >= 1 /\ held["p80"] = 0 /\ heapBufs = 0

\* C3: a capture request that acquired a frame returns it exactly once
\* before the handler returns, whatever the outcome of the send or of the
\* streamed encode; until then it holds exactly that frame.
C3_CaptureReleasesOnce ==
  \A t \in HttpTasks :
    CaptureOn(t) =>
      /\ held[t] \in 0..1
      /\ (fb[t] # "null") <=> (held[t] = 1)
      /\ pc[t] = "idle" =>
           /\ held[t] = 0
           /\ cap[t].released = IF cap[t].got THEN 1 ELSE 0
      /\ pc[t] # "idle" =>
           /\ cap[t].released = 0
           /\ held[t] = IF cap[t].got THEN 1 ELSE 0

\* a request whose streamed encode was aborted after a chunk went out
C3_Witness ==
  \E t \in HttpTasks :
    /\ CaptureDone(t) /\ cap[t].got /\ ret[t] = "ESP_FAIL"
    /\ cap[t].body = "partial" /\ cap[t].released = 1

\* C4: a stream session whose first failed write is in its 5th frame
\* acquires no further frame, has emitted exactly 4 complete parts
\* (boundary, header and payload), holds no frame and no encode buffer once
\* the loop is left and returns failure.
C4_FifthFrameFailure ==
  (StreamOn /\ sess.failAt = 5) =>
    /\ sess.encoded = 5
    /\ sess.payloads = 4
    /\ sess.boundaries \in 4..5
    /\ sess.headers \in 4..5
    /\ sess.headers <= sess.boundaries
    /\ pc["p80"] \in {"s_header", "s_payload", "s_release", "s_cleanup", "idle"}
    /\ pc["p80"] \in {"s_cleanup", "idle"} =>
         /\ held["p80"] = 0 /\ heapBufs = 0
         /\ fb["p80"] = "null" /\ jpg_buf = "null"
    /\ pc["p80"] = "idle" => ret["p80"] = "ESP_FAIL"

\* the session has returned after the write failure in its 5th frame
C4_Witness ==
  StreamOn /\ sess.failAt = 5 /\ pc["p80"] = "idle" /\ sess.payloads = 4

\* C5 as stated: whenever no part is in flight, and at close, the boundary
\* markers emitted are as many as the frames acquired and encoded.
C5_BoundariesEqualFrames ==
  (StreamOn /\ pc["p80"] \in {"s_acquire", "s_errdelay", "s_pace",
                               "s_cleanup", "idle"}) =>
    sess.boundaries = sess.encoded

\* C5 amended: the boundary markers emitted are as many as the frames
\* acquired and encoded, not counting the frame whose boundary is still to
\* be sent or whose boundary send failed (which closes the session).
C5_BoundariesAmended ==
  StreamOn =>
    sess.boundaries + (IF pc["p80"] = "s_boundary" THEN 1 ELSE 0)
                    + (IF sess.bFail THEN 1 ELSE 0) = sess.encoded

\* a session closed by a failed boundary send after earlier parts
C5_Witness ==
  /\ StreamOn /\ pc["p80"] = "idle" /\ sess.bFail
  /\ sess.boundaries >= 1 /\ sess.encoded = sess.boundaries + 1

\* C6: a stream session closes for a hardware fault exactly when its own
\* run of consecutive acquire failures exceeds 10, and then returns failure.
C6_ThresholdExact ==
  StreamOn =>
    /\ (sess.closed = "threshold") <=> (sess.fails > ERROR_THRESHOLD)
    /\ (sess.closed = "threshold" /\ pc["p80"] = "idle") =>
         ret["p80"] = "ESP_FAIL"

\* C7: the error counter belongs to the open session: it equals the run of
\* consecutive acquire failures of that session, so it is zero when the
\* session is created and carries nothing over from an earlier session.
C7_PerConnectionCounter ==
  (StreamOn /\ sess.closed = "open") => error_count = sess.fails

\* C8: when a frame has been delivered the error counter is zero, so the
\* failures counted toward the threshold all came after the last delivery.
C8_ResetOnDelivery ==
  (StreamOn /\ (\/ pc["p80"] = "s_pace"
                \/ /\ pc["p80"] = "s_release"
                   /\ res["p80"] = "ESP_OK"
                   /\ sess.sentLen > 0)) =>
    error_count = 0

\* the first part of a session was delivered after acquire failures
C8_Witness ==
  /\ StreamOn /\ pc["p80"] = "s_pace" /\ sess.hadFail
  /\ sess.payloads = 1 /\ error_count = 0

\* C9: a capture request that got a frame from any of its attempts and
\* whose send (or streamed encode) succeeded returns ESP_OK with a 200
\* response carrying the whole image; it gives up for lack of a frame only
\* after 3 failed attempts, so 2 failures followed by a frame succeed.
C9_CaptureSucceeds ==
  \A t \in HttpTasks :
    CaptureDone(t) =>
      /\ (cap[t].got /\ cap[t].sendOk) =>
           /\ ret[t] = "ESP_OK"
           /\ cap[t].status = "200"
           /\ cap[t].body = "full"
           /\ cap[t].hdrs
      /\ ~cap[t].got => cap[t].attempts = 3

\* two failed attempts, the third returned a frame, the image was sent
C9_Witness ==
  \E t \in HttpTasks :
    /\ CaptureDone(t) /\ cap[t].attempts = 3 /\ cap[t].backoffs = 2
    /\ cap[t].got /\ ret[t] = "ESP_OK" /\ cap[t].body = "full"

\* C10: a capture request makes at most 3 attempts and sleeps 50 ms after
\* each failed attempt but the last; when all 3 fail it answers 500 with no
\* body and no image headers, holds no frame and returns ESP_FAIL.
C10_CaptureRetryBudget ==
  \A t \in HttpTasks :
    CaptureOn(t) =>
      /\ cap[t].attempts <= 3
      /\ cap[t].backoffs <= 2
      /\ cap[t].backoffs <= cap[t].attempts
      /\ cap[t].got => cap[t].backoffs = cap[t].attempts - 1
      /\ pc[t] = "c_backoff" =>
           /\ sleep[t] = 50
           /\ cap[t].attempts < 3
           /\ cap[t].backoffs = cap[t].attempts
           /\ held[t] = 0
      /\ pc[t] # "c_backoff" => sleep[t] = 0
      /\ (CaptureDone(t) /\ ~cap[t].got) =>
           /\ cap[t].attempts = 3
           /\ cap[t].backoffs = 2
           /\ cap[t].status = "500"
           /\ ~cap[t].hdrs
           /\ cap[t].body = "none"
           /\ held[t] = 0
           /\ fb[t] = "null"
           /\ ret[t] = "ESP_FAIL"
      /\ cap[t].status = "500" => ~cap[t].got

\* all three attempts failed and the request was answered with 500
C10_Witness ==
  \E t \in HttpTasks :
    /\ CaptureDone(t) /\ cap[t].status = "500" /\ cap[t].attempts = 3
    /\ cap[t].backoffs = 2 /\ ret[t] = "ESP_FAIL"

(***************************************************************************)
(* Control, status, health                                                 *)
(***************************************************************************)

\* the Capture Configuration
Config ==
  [framesize |-> sensor.framesize, quality |-> sensor.quality,
   stream_delay |-> stream_delay_ms, vflip |-> sensor.vflip,
   hmirror |-> sensor.hmirror]

\* the status lines that tell the client its request was wrong
ClientErrors == {"400", "404"}

ControlDone == resp.handler = "control"

\* the number a request carries in val, for values that are decimal text
\* within the int range
Requested == resp.q.value.num

\* C11: a control request with an unrecognized var name is answered with a
\* client error, neither a server error nor success, and changes no field
\* of the Capture Configuration.
C11_UnknownVarClientError ==
  (ControlDone /\ resp.q.form = "ok" /\ resp.q.variable \notin KnownVars) =>
    /\ resp.status \in ClientErrors
    /\ ~resp.changed

C13_ConfigInRange ==
  /\ stream_delay_ms \in 33..500
  /\ sensor.present =>
       /\ sensor.quality \in 5..63
       /\ sensor.vflip \in {0, 1}
       /\ sensor.hmirror \in {0, 1}
       /\ sensor.framesize \in 0..(FRAMESIZE_INVALID - 1)
       /\ ~hasPsram => sensor.framesize <= FRAMESIZE_SVGA

\* the largest int was requested as stream delay and applied as 500, the
\* other fields having been written by earlier requests
C13_Witness ==
  /\ ControlDone /\ resp.status = "200"
  /\ resp.q.variable = "stream_delay" /\ resp.q.value = Num(INT_MAX)
  /\ stream_delay_ms = 500
  /\ sensor.quality = 63 /\ sensor.vflip = 1 /\ sensor.hmirror = 1

QualityRequest ==
  /\ ControlDone /\ resp.q.form = "ok" /\ resp.q.variable = "quality"
  /\ resp.q.value.text = "num"

FramesizeAboveLimit ==
  /\ ~hasPsram
  /\ ControlDone /\ resp.q.form = "ok" /\ resp.q.variable = "framesize"
  /\ resp.q.value.text # "huge"
  /\ framesize_from_value(resp.q.value, Requested) > FRAMESIZE_SVGA

StatusDone == resp.handler = "status" /\ resp.status = "200"

\* the snapshot of /status is the configuration of the moment
StatusCurrent ==
  StatusDone =>
    /\ \A f \in DOMAIN Config : resp.body[f] = Config[f]
    /\ resp.body.framesize_name = framesize_name(Config.framesize)

\* a field of the configuration changes only in a control request for this
\* field that is answered with success
WrittenByControl ==
  \A f \in DOMAIN Config :
    (sensor.present /\ Config'[f] # Config[f]) =>
      /\ resp'.handler = "control" /\ resp'.status = "200"
      /\ resp'.q.variable = f /\ resp'.changed

\* a status request changes nothing but the response
StatusNoEffect ==
  (resp'.handler = "status" /\ resp' # resp) =>
    UNCHANGED <<mainVars, fbOut, held, handlerVars, sensor, lastStart>>

\* C16: every field of a status response (framesize, quality, stream delay,
\* vflip, hmirror) is the value the most recent successful control request
\* for the field wrote, from the first status request after it on, and a
\* status request changes no configuration field and no other state.
C16_StatusReflectsControl ==
  /\ []StatusCurrent
  /\ [][WrittenByControl]_vars
  /\ [][StatusNoEffect]_vars

\* a status response that reports what control requests wrote to each of the
\* five fields
C16_Witness ==
  /\ StatusDone
  /\ resp.body.stream_delay = 500 /\ resp.body.quality = 63
  /\ resp.body.framesize = 0 /\ resp.body.framesize_name = "CUSTOM"
  /\ resp.body.vflip = 1 /\ resp.body.hmirror = 1

HealthDone == resp.handler = "health"

\* C17: the health response carries camera, wifi and server each as a
\* boolean of its own (sensor available, WiFi associated, primary listener
\* handle present), and its status is OK if and only if all three are true,
\* ERROR in each of the other seven combinations.
C17_HealthComposite ==
  HealthDone =>
    /\ resp.status = "200"
    /\ resp.body.camera = sensor.present
    /\ resp.body.wifi = (wifiStatus = "WL_CONNECTED")
    /\ resp.body.server = camera_httpd
    /\ resp.body.status \in {"OK", "ERROR"}
    /\ resp.body.status = "OK" <=>
         (resp.body.camera /\ resp.body.wifi /\ resp.body.server)

\* camera and WiFi are fine, the listener handle is absent: ERROR
C17_Witness ==
  /\ HealthDone
  /\ resp.body.camera /\ resp.body.wifi /\ ~resp.body.server
  /\ resp.body.status = "ERROR"

\* C18: a call of startCameraServer made when the primary listener handle
\* exists starts no listener, registers no handler, leaves both listener
\* handles as they were and reports success (server_started true).
C18_StartIdempotent ==
  (lastStart.called /\ lastStart.pre80) =>
    /\ lastStart.started = 0
    /\ lastStart.registered = 0
    /\ lastStart.result
    /\ camera_httpd = lastStart.pre80
    /\ snapshot_httpd = lastStart.pre81

\* the second call, made after the first one started port 80 and failed on
\* port 81
C18_Witness ==
  /\ lastStart.called /\ lastStart.pre80 /\ ~lastStart.pre81
  /\ lastStart.started = 0 /\ lastStart.result
  /\ camera_httpd /\ ~snapshot_httpd /\ server_started

\* a stream session is open: stream_handler has not returned
StreamOpen == StreamOn /\ pc["p80"] # "idle"

\* C19: while a stream session is open, a capture request to either
\* listener is taken up without waiting for the session to end (its handler
\* can start, or a capture request is being served there), and no handler
\* waits for a camera buffer while it holds one.
C19_CaptureNotBlocked ==
  /\ \A t \in HttpTasks :
       (StreamOpen /\ Listening(t)) =>
         \/ ENABLED capture_handler_start(t)
         \/ CaptureOn(t) /\ pc[t] # "idle"
  /\ \A t \in HttpTasks :
       pc[t] \in {"s_acquire", "s_errdelay", "c_acquire", "c_backoff"} =>
         held[t] = 0

\* C20: after every part sent successfully the stream session sleeps the
\* pacing delay configured at that moment before it acquires the next
\* frame, whatever the configured value; outside the release step every
\* part sent has been followed by its wait, so a wait is left out only when
\* the session closes on a failed send.
C20_PacingAfterEveryPart ==
  StreamOn =>
    /\ pc["p80"] = "s_pace" =>
         /\ sleep["p80"] = stream_delay_ms
         /\ sleep["p80"] >= STREAM_DELAY_MIN
    /\ pc["p80"] # "s_release" => sess.paced = sess.payloads
    /\ pc["p80"] = "s_release" =>
         sess.payloads = sess.paced
                           + (IF res["p80"] = "ESP_OK" /\ jpg_buf # "null"
                                THEN 1 ELSE 0)
    /\ sess.closed = "send" => sess.paced = sess.payloads

\* the second part of a session was sent and the session sleeps the 500 ms
\* a control request had configured
C20_Witness ==
  /\ StreamOn /\ pc["p80"] = "s_pace"
  /\ stream_delay_ms = 500 /\ sleep["p80"] = 500
  /\ sess.payloads = 2 /\ sess.paced = 2

(***************************************************************************)
(* Stream parts, failures, start-up, LED                                   *)
(***************************************************************************)

\* C21: in a stream session every frame is delivered before the next one is
\* acquired, so frames go out in the order acquired; of each part the
\* boundary is sent first, then the header, then the payload; a payload is
\* never sent without its boundary and header, and the content length of
\* the header is the length of the payload sent.
C21_PartOrder ==
  StreamOn =>
    /\ sess.payloads <= sess.headers
    /\ sess.headers <= sess.boundaries
    /\ sess.boundaries <= sess.encoded
    /\ sess.encoded - sess.payloads <= 1
    /\ (pc["p80"] = "s_header" /\ res["p80"] = "ESP_OK") =>
         /\ sess.boundaries = sess.encoded
         /\ sess.headers = sess.encoded - 1
    /\ (pc["p80"] = "s_payload" /\ res["p80"] = "ESP_OK") =>
         /\ sess.headers = sess.encoded
         /\ sess.payloads = sess.encoded - 1
         /\ sess.hdrLen = jpg_buf_len
    /\ (pc["p80"] = "s_release" /\ sess.sentLen > 0) =>
         /\ sess.payloads = sess.encoded
         /\ sess.sentLen = sess.hdrLen
         /\ sess.sentLen = jpg_buf_len
    /\ pc["p80"] \in {"s_pace", "s_acquire", "s_errdelay", "s_encode"} =>
         /\ sess.payloads = sess.encoded
         /\ sess.headers = sess.encoded
         /\ sess.boundaries = sess.encoded

\* the third part of a session, a converted frame of length 2, has just been
\* sent: boundary, header with content length 2, payload of length 2
C21_Witness ==
  /\ StreamOn /\ pc["p80"] = "s_release"
  /\ jpg_buf = "heap" /\ sess.sentLen = 2 /\ sess.hdrLen = 2
  /\ sess.boundaries = 3 /\ sess.headers = 3 /\ sess.payloads = 3

\* C22: a failed conversion of a non-JPEG frame ends the stream session:
\* the camera frame has been returned, nothing was sent for the frame, the
\* loop is left for the cleanup without a further acquire or a wait, no
\* encode buffer stays allocated, and the handler returns ESP_FAIL.
C22_EncodeFailureFatal ==
  (StreamOn /\ sess.closed = "encode") =>
    /\ pc["p80"] \in {"s_cleanup", "idle"}
    /\ held["p80"] = 0 /\ fb["p80"] = "null"
    /\ sleep["p80"] = 0
    /\ res["p80"] = "ESP_FAIL"
    /\ sess.boundaries = sess.encoded
    /\ sess.headers = sess.encoded
    /\ sess.payloads = sess.encoded
    /\ sess.paced = sess.payloads
    /\ pc["p80"] = "idle" =>
         /\ ret["p80"] = "ESP_FAIL"
         /\ heapBufs = 0 /\ jpg_buf = "null"

\* one part was delivered, then the conversion of the second frame failed
\* and the handler returned
C22_Witness ==
  /\ StreamOn /\ sess.closed = "encode" /\ pc["p80"] = "idle"
  /\ ret["p80"] = "ESP_FAIL" /\ sess.payloads = 1 /\ sess.encoded = 1
  /\ fbOut = 0

\* a send of the part in progress has failed
SendFailed ==
  /\ StreamOn /\ res["p80"] = "ESP_FAIL"
  /\ pc["p80"] \in {"s_header", "s_payload", "s_release"}

\* C23: once one of the three sends of a part (boundary, header, payload)
\* has failed, no further chunk of the part is sent, the frame or encode
\* buffer held is released at the end of that iteration, and the session
\* goes to the cleanup and returns: with a failed send behind it the session
\* is never in the pacing wait, at an acquire or at a later part.
C23_SendFailureCloses ==
  /\ SendFailed =>
       /\ sess.failAt = sess.encoded
       /\ sess.payloads = sess.encoded - 1
       /\ pc["p80"] = "s_header" => sess.boundaries = sess.encoded - 1
       /\ sess.bFail => sess.headers = sess.encoded - 1
       /\ sess.headers <= sess.boundaries
  /\ (StreamOn /\ pc["p80"] \in {"s_pace", "s_acquire", "s_errdelay",
                                 "s_encode", "s_boundary"}) =>
       /\ res["p80"] = "ESP_OK"
       /\ sess.failAt = 0
  /\ (StreamOn /\ sess.closed = "send") =>
       /\ pc["p80"] \in {"s_cleanup", "idle"}
       /\ res["p80"] = "ESP_FAIL"
       /\ sess.failAt = sess.encoded
       /\ sess.payloads = sess.encoded - 1
       /\ sess.paced = sess.payloads
       /\ held["p80"] = 0 /\ fb["p80"] = "null"
       /\ heapBufs = 0 /\ jpg_buf = "null"
       /\ sleep["p80"] = 0

\* the header send of the second part failed: its boundary went out, its
\* header and payload did not, and the session is at the cleanup
C23_Witness ==
  /\ StreamOn /\ sess.closed = "send" /\ pc["p80"] = "s_cleanup"
  /\ sess.boundaries = 2 /\ sess.headers = 1 /\ sess.payloads = 1
  /\ sess.paced = 1 /\ fbOut = 0 /\ heapBufs = 0

\* setup() gave up because the camera could not be initialised
CameraFailed == pcMain = "loop" /\ ~camera_initialized

\* C24: after a failed camera initialisation no listener is ever started:
\* whatever the WiFi status does and however often loop() runs,
\* startCameraServer is not called, both listener handles stay null and
\* server_started stays false.
C24_NoServerWithoutCamera ==
  CameraFailed =>
    /\ ~lastStart.called
    /\ ~camera_httpd
    /\ ~snapshot_httpd
    /\ ~server_started
    /\ lastStart.total80 = 0 /\ lastStart.total81 = 0

\* the camera failed and a loop iteration found the WiFi connected
C24_Witness ==
  /\ CameraFailed /\ wifi_connected /\ wifiStatus = "WL_CONNECTED"
  /\ ~server_started /\ ~camera_httpd /\ ~lastStart.called

\* what jpg_encode_stream did so far in a request: its returns add up to the
\* bytes the client accepted, and so does its byte total, which started from
\* zero at the chunk with index 0
SinkCounts(t) ==
  /\ jchunk[t].index = cap[t].written
  /\ jchunk[t].len = cap[t].written

C26_StartedMeansBoth ==
  server_started => (camera_httpd /\ snapshot_httpd)

\* C27: a handler that sleeps holds no camera frame and no encode buffer: a
\* stream session in its pacing delay or in the 50 ms wait after a failed
\* acquire, and a capture request in its retry backoff; these are the only
\* places where a handler sleeps.
C27_NothingHeldAsleep ==
  /\ \A t \in HttpTasks :
       /\ sleep[t] > 0 <=> pc[t] \in {"s_pace", "s_errdelay", "c_backoff"}
       /\ sleep[t] > 0 => (held[t] = 0 /\ fb[t] = "null")
  /\ pc["p80"] \in {"s_pace", "s_errdelay"} =>
       (heapBufs = 0 /\ jpg_buf = "null")
  /\ pc["p80"] = "s_pace" => sleep["p80"] = stream_delay_ms
  /\ pc["p80"] = "s_errdelay" => sleep["p80"] = STREAM_ERR_DELAY_MS
  /\ \A t \in HttpTasks : pc[t] = "c_backoff" => sleep[t] = RETRY_DELAY_MS

\* the stream session is in its pacing delay after a part and a snapshot
\* request is in its backoff; no frame is out
C27_Witness ==
  /\ StreamOn /\ pc["p80"] = "s_pace" /\ sess.payloads >= 1
  /\ CaptureOn("p81") /\ pc["p81"] = "c_backoff"
  /\ fbOut = 0 /\ heapBufs = 0

\* loop() finds the association gone while wifi_connected is still set
WiFiLost ==
  wifi_connected /\ wifiStatus # "WL_CONNECTED"

\* C28: the LED is in READY mode only if the camera is initialized, WiFi is
\* connected and server_started is true; the loop iteration that finds the
\* WiFi association lost sets the LED to ERROR and clears wifi_connected and
\* server_started in that same iteration.
C28_LedReadyMeansUp ==
  /\ [](led_mode = "LED_MODE_READY" =>
          (camera_initialized /\ wifi_connected /\ server_started))
  /\ [][(loop /\ WiFiLost) =>
          (/\ led_mode' = "LED_MODE_ERROR"
           /\ ~wifi_connected'
           /\ ~server_started')]_vars

\* the server had been started with the LED at READY, then loop() found the
\* association lost
C28_Witness ==
  /\ lastStart.called /\ lastStart.result
  /\ camera_httpd
  /\ ~wifi_connected /\ ~server_started
  /\ led_mode = "LED_MODE_ERROR"

\* the server had been started, a lost association was seen by loop(), and
\* the radio reports the association again
WiFiRegained ==
  /\ camera_initialized
  /\ lastStart.called /\ lastStart.result
  /\ ~wifi_connected
  /\ wifiStatus = "WL_CONNECTED"

\* C29: once the association is back after a loss (camera initialized, server
\* started before), loop() sets server_started to true and the LED to READY
\* again, unless the association is lost once more before it runs; and no
\* listener is started successfully more than once in the whole execution.
C29_RestartWithoutSecondStart ==
  /\ [](lastStart.total80 <= 1 /\ lastStart.total81 <= 1)
  /\ (WiFiRegained ~>
        ((server_started /\ led_mode = "LED_MODE_READY")
           \/ wifiStatus # "WL_CONNECTED"))

\* the server is up again after a loss: the last call of startCameraServer
\* found the primary listener running and started nothing
C29_Witness ==
  /\ server_started /\ wifi_connected /\ led_mode = "LED_MODE_READY"
  /\ lastStart.called /\ lastStart.pre80 /\ lastStart.pre81
  /\ lastStart.started = 0
  /\ lastStart.total80 = 1 /\ lastStart.total81 = 1

====
